---- MODULE Spec2Model ----
(***************************************************************************)
(* Model of src/task_5/agent.py: the Agent class (turn counter, anchors,   *)
(* role map), its scheduler (seed, phase target, rebalance, cleanup) and   *)
(* the role behaviours get_action dispatches to.                           *)
(*                                                                         *)
(* Conventions.  A ship is the tuple <<id, x, y, hp, fire_cd, move_cd>>;   *)
(* Python's ship[k] is ship[k+1] here.  Python's None and the empty list   *)
(* are both the empty tuple.  An action is <<id, 1, d>> (fire) or          *)
(* <<id, 0, d, s>> (move).  A TypeError raised by subscripting None is the *)
(* value TypeError below.  A dict is a function on its key set; the two    *)
(* dicts whose iteration order the code depends on (role_counts and        *)
(* target_distribution) are both built in the order of RoleOrder.          *)
(***************************************************************************)
EXTENDS Integers, Sequences, FiniteSets, TLC

VARIABLES
    turn_counter,                 \* self.turn_counter
    home_planet,                  \* self.home_planet (None or an occupation entry)
    enemy_planet,                 \* self.enemy_planet (None or <<x, y>>)
    ship_roles,                   \* self.ship_roles: unit id -> role
    last_known_enemy_positions,   \* self.last_known_enemy_positions
    obs,                          \* the observation of the latest get_action call
    ret,                          \* what the latest get_action call returned
    sched,                        \* the scheduler's intermediate values in that call
    calls,                        \* number of get_action invocations so far
    ticks,                        \* invocations made in this run of the model
    helper                        \* a direct call of a module-level function:
                                  \* its name, arguments and result

vars == <<turn_counter, home_planet, enemy_planet, ship_roles,
          last_known_enemy_positions, obs, ret, sched, calls, ticks, helper>>

agent_vars == <<turn_counter, home_planet, enemy_planet, ship_roles,
                last_known_enemy_positions, obs, ret, sched, calls, ticks>>

----------------------------------------------------------------------------
(* Constants of the program *)

ROLE_EXPLORE == "explore"
ROLE_ATTACK == "attack"
ROLE_DEFEND == "defend"

RoleOrder == <<ROLE_EXPLORE, ROLE_ATTACK, ROLE_DEFEND>>
RoleSet == {ROLE_EXPLORE, ROLE_ATTACK, ROLE_DEFEND}

None == <<>>
NoTarget == <<>>
TypeError == <<-1>>

Phase2Start == 250
Phase3Start == 500
AttackMinHealth == 30
RetreatHealth == 30
FireRadius == 8
WalkAttempts == 10
WalkMaxDistance == 15
BoardSize == 100
LowCorner == 9
HighCorner == 90
MaxSpeed == 3
Construction == 10

----------------------------------------------------------------------------
(* Generic helpers *)

Abs(n) == IF n < 0 THEN -n ELSE n
Min(a, b) == IF a < b THEN a ELSE b
Max(a, b) == IF a > b THEN a ELSE b

Put(f, k, v) == [x \in (DOMAIN f) \cup {k} |-> IF x = k THEN v ELSE f[x]]

ShipIds(ships) == {ships[i][1] : i \in 1..Len(ships)}

----------------------------------------------------------------------------
(* Agent.scheduler *)

ZeroCounts == [r \in RoleSet |-> 0]

\* InitialRole with the Attack and Defend residues exchanged
InitialRoleSwapped(ship_id) ==
    IF ship_id % 3 = 1 THEN ROLE_DEFEND
    ELSE IF ship_id % 3 = 0 THEN ROLE_EXPLORE
    ELSE ROLE_ATTACK

InitialRole(ship_id) ==
    IF ship_id % 3 = 2 THEN ROLE_DEFEND
    ELSE IF ship_id % 3 = 0 THEN ROLE_EXPLORE
    ELSE ROLE_ATTACK

\* one iteration of the Step 1 loop for ships[k]
SeedShip(st, ship) ==
    LET id == ship[1]
        roles2 == IF id \in DOMAIN st.roles THEN st.roles
                  ELSE Put(st.roles, id, InitialRole(id))
    IN  [roles |-> roles2,
         counts |-> [st.counts EXCEPT ![roles2[id]] = @ + 1]]

RECURSIVE SeedLoop(_, _, _)
SeedLoop(st, ships, k) ==
    IF k > Len(ships) THEN st
    ELSE SeedLoop(SeedShip(st, ships[k]), ships, k + 1)

\* Seed that gives no unit a role
SeedNothing(roles, ships) == [roles |-> roles, counts |-> ZeroCounts]

Seed(roles, ships) == SeedLoop([roles |-> roles, counts |-> ZeroCounts], ships, 1)

\* TargetDistribution with the phase tests off by one ("<=" for "<")
TargetDistributionLate(turn, total_ships) ==
    IF turn <= Phase2Start THEN
        [r \in RoleSet |-> IF r = ROLE_EXPLORE THEN Max(1, total_ships) ELSE 0]
    ELSE IF turn <= Phase3Start THEN
        [r \in RoleSet |-> IF r = ROLE_ATTACK THEN Max(1, total_ships) ELSE 0]
    ELSE
        [r \in RoleSet |-> IF r = ROLE_ATTACK THEN 0
                           ELSE Max(1, total_ships \div 2)]

TargetDistribution(turn, total_ships) ==
    IF turn < Phase2Start THEN
        [r \in RoleSet |-> CASE r = ROLE_EXPLORE -> Max(1, total_ships)
                             [] r = ROLE_ATTACK -> Max(0, 0)
                             [] r = ROLE_DEFEND -> Max(0, 0)]
    ELSE IF Phase2Start <= turn /\ turn < Phase3Start THEN
        [r \in RoleSet |-> CASE r = ROLE_EXPLORE -> Max(0, 0)
                             [] r = ROLE_ATTACK -> Max(1, total_ships)
                             [] r = ROLE_DEFEND -> Max(0, 0)]
    ELSE
        [r \in RoleSet |-> CASE r = ROLE_EXPLORE -> Max(1, total_ships \div 2)
                             [] r = ROLE_ATTACK -> Max(0, 0)
                             [] r = ROLE_DEFEND -> Max(1, total_ships \div 2)]

\* The rebalance state: the role map, role_counts, current_count of the role
\* being filled, and the reassignments made so far as <<id, from, to>>.

\* Takes with the health test applied whatever the role being filled
TakesHealthyOnly(st, ship, role, excess_role) ==
    /\ ship[1] \in DOMAIN st.roles
    /\ st.roles[ship[1]] = excess_role
    /\ ~(ship[4] < AttackMinHealth)

\* Takes without the health test
TakesAnyHealth(st, ship, role, excess_role) ==
    /\ ship[1] \in DOMAIN st.roles
    /\ st.roles[ship[1]] = excess_role

\* whether the inner "for ship" loop reassigns ships[k] to role
Takes(st, ship, role, excess_role) ==
    /\ ship[1] \in DOMAIN st.roles
    /\ st.roles[ship[1]] = excess_role
    /\ ~(role = ROLE_ATTACK /\ ship[4] < AttackMinHealth)

RECURSIVE ShipLoop(_, _, _, _, _)
ShipLoop(st, ships, role, excess_role, k) ==
    IF k > Len(ships) THEN st
    ELSE IF Takes(st, ships[k], role, excess_role) THEN
        [roles |-> [st.roles EXCEPT ![ships[k][1]] = role],
         counts |-> [st.counts EXCEPT ![excess_role] = @ - 1, ![role] = @ + 1],
         current_count |-> st.current_count + 1,
         moved |-> Append(st.moved, <<ships[k][1], excess_role, role>>)]
    ELSE ShipLoop(st, ships, role, excess_role, k + 1)

\* ExcessLoop that also takes from a role that is at its target (">=" for ">")
RECURSIVE ExcessLoopAtTarget(_, _, _, _, _)
ExcessLoopAtTarget(st, ships, target, role, j) ==
    IF j > Len(RoleOrder) THEN st
    ELSE LET excess_role == RoleOrder[j] IN
         IF excess_role # role /\ st.counts[excess_role] >= target[excess_role] THEN
             LET st2 == ShipLoop(st, ships, role, excess_role, 1) IN
             IF st2.current_count >= target[role] THEN st2
             ELSE ExcessLoopAtTarget(st2, ships, target, role, j + 1)
         ELSE ExcessLoopAtTarget(st, ships, target, role, j + 1)

\* the "for excess_role in role_counts" loop, from the j-th role on
RECURSIVE ExcessLoop(_, _, _, _, _)
ExcessLoop(st, ships, target, role, j) ==
    IF j > Len(RoleOrder) THEN st
    ELSE LET excess_role == RoleOrder[j] IN
         IF excess_role # role /\ st.counts[excess_role] > target[excess_role] THEN
             LET st2 == ShipLoop(st, ships, role, excess_role, 1) IN
             IF st2.current_count >= target[role] THEN st2
             ELSE ExcessLoop(st2, ships, target, role, j + 1)
         ELSE ExcessLoop(st, ships, target, role, j + 1)

\* WhileLoop that repeats the pass as long as a pass reassigns a unit
RECURSIVE WhileLoopUntilDone(_, _, _, _)
WhileLoopUntilDone(st, ships, target, role) ==
    IF st.current_count < target[role] THEN
        LET st2 == ExcessLoop(st, ships, target, role, 1) IN
        IF st2.current_count = st.current_count THEN st2
        ELSE WhileLoopUntilDone(st2, ships, target, role)
    ELSE st

\* WhileLoop that never enters its body
WhileLoopIdle(st, ships, target, role) == st

\* the "while current_count < target_count" loop
RECURSIVE WhileLoop(_, _, _, _)
WhileLoop(st, ships, target, role) ==
    IF st.current_count < target[role] THEN
        LET st2 == ExcessLoop(st, ships, target, role, 1) IN
        IF st2.current_count < target[role] THEN st2
        ELSE WhileLoop(st2, ships, target, role)
    ELSE st

\* the "for role, target_count in target_distribution.items()" loop
RECURSIVE RoleLoop(_, _, _, _)
RoleLoop(st, ships, target, i) ==
    IF i > Len(RoleOrder) THEN st
    ELSE LET role == RoleOrder[i]
             st1 == [st EXCEPT !.current_count = st.counts[role]]
         IN  RoleLoop(WhileLoop(st1, ships, target, role), ships, target, i + 1)

Rebalance(roles, counts, target, ships) ==
    RoleLoop([roles |-> roles, counts |-> counts, current_count |-> 0,
              moved |-> <<>>], ships, target, 1)

\* Cleanup that evicts nothing
CleanupMissing(roles, ships) == roles

Cleanup(roles, ships) ==
    [id \in (DOMAIN roles) \cap ShipIds(ships) |-> roles[id]]

\* scheduler(): the final role map with the intermediate values of the call
Scheduler(roles, turn, ships) ==
    LET seeded == Seed(roles, ships)
        target == TargetDistribution(turn, Len(ships))
        reb == Rebalance(seeded.roles, seeded.counts, target, ships)
    IN  [pre |-> roles,
         seeded |-> seeded.roles,
         seeded_counts |-> seeded.counts,
         target |-> target,
         rebalanced |-> reb.roles,
         role_counts |-> reb.counts,
         moved |-> reb.moved,
         final |-> Cleanup(reb.roles, ships)]

----------------------------------------------------------------------------
(* Map cells.  obs['map'] is the BoardSize x BoardSize grid; it is kept as a *)
(* function on the cells that are not 0, every other cell being 0.           *)

MapCell(map, i, j) == IF <<i, j>> \in DOMAIN map THEN map[<<i, j>>] ELSE 0

\* the binary digits of v >= 0, most significant first
RECURSIVE Bits(_)
Bits(v) == IF v < 2 THEN <<v>> ELSE Append(Bits(v \div 2), v % 2)

\* format(v, '08b') for v >= 0: the digits, zero-padded on the left to width 8
Format08b(v) ==
    LET b == Bits(v)
        pad == IF Len(b) >= 8 THEN 0 ELSE 8 - Len(b)
    IN  [i \in 1..(pad + Len(b)) |-> IF i <= pad THEN 0 ELSE b[i - pad]]

\* format(v, '08b')[-1] == '1' and format(v, '08b')[0:2] == '00'
IsValuable(v) ==
    LET s == Format08b(v) IN s[Len(s)] = 1 /\ SubSeq(s, 1, 2) = <<0, 0>>

is_asteroid(map, x, y) ==
    LET s == Format08b(MapCell(map, x, y)) IN s[Len(s) - 1] = 1

----------------------------------------------------------------------------
(* Module-level behaviour functions *)

\* shoot_enemy_if_in_range with the radius exclusive ("<" for "<=")
shoot_enemy_radius_exclusive(enemy, ship) ==
    LET ship_x == ship[2]
        ship_y == ship[3]
        enemy_x == enemy[2]
        enemy_y == enemy[3]
    IN  IF ship_y = enemy_y /\ enemy_x > ship_x /\ enemy_x - ship_x < FireRadius
            THEN <<ship[1], 1, 0>>
        ELSE IF ship_y = enemy_y /\ enemy_x < ship_x /\ ship_x - enemy_x < FireRadius
            THEN <<ship[1], 1, 2>>
        ELSE IF ship_x = enemy_x /\ enemy_y > ship_y /\ enemy_y - ship_y < FireRadius
            THEN <<ship[1], 1, 1>>
        ELSE IF ship_x = enemy_x /\ enemy_y < ship_y /\ ship_y - enemy_y < FireRadius
            THEN <<ship[1], 1, 3>>
        ELSE NoTarget

shoot_enemy_if_in_range(enemy, ship) ==
    LET ship_x == ship[2]
        ship_y == ship[3]
        enemy_x == enemy[2]
        enemy_y == enemy[3]
    IN  IF ship_y = enemy_y /\ enemy_x > ship_x /\ enemy_x - ship_x <= FireRadius
            THEN <<ship[1], 1, 0>>
        ELSE IF ship_y = enemy_y /\ enemy_x < ship_x /\ ship_x - enemy_x <= FireRadius
            THEN <<ship[1], 1, 2>>
        ELSE IF ship_x = enemy_x /\ enemy_y > ship_y /\ enemy_y - ship_y <= FireRadius
            THEN <<ship[1], 1, 1>>
        ELSE IF ship_x = enemy_x /\ enemy_y < ship_y /\ ship_y - enemy_y <= FireRadius
            THEN <<ship[1], 1, 3>>
        ELSE NoTarget

\* "for enemy in obs['enemy_ships']: choice = ...; if choice: return choice"
RECURSIVE FirstShot(_, _, _)
FirstShot(enemies, ship, k) ==
    IF k > Len(enemies) THEN NoTarget
    ELSE LET choice == shoot_enemy_if_in_range(enemies[k], ship) IN
         IF choice # NoTarget THEN choice ELSE FirstShot(enemies, ship, k + 1)

\* the move toward (or away from) a point that three behaviours share:
\* dx, dy are the offsets the code computes, the four directions in the
\* order (dx > 0, dx <= 0, dy > 0, dy <= 0)
AxisMove(id, dx, dy, dirs, sx, sy) ==
    IF Abs(dx) > Abs(dy) THEN
        IF dx > 0 THEN <<id, 0, dirs[1], sx>> ELSE <<id, 0, dirs[2], sx>>
    ELSE
        IF dy > 0 THEN <<id, 0, dirs[3], sy>> ELSE <<id, 0, dirs[4], sy>>

\* get_offense_action with the speed capped by the remaining distance
get_offense_capped(o, ship, enemy_pl) ==
    IF enemy_pl = None THEN TypeError
    ELSE LET shot == IF ship[5] = 0 THEN FirstShot(o.enemy_ships, ship, 1)
                     ELSE NoTarget
             dx == enemy_pl[1] - ship[2]
             dy == enemy_pl[2] - ship[3]
             speed == IF ship[6] = 0 THEN MaxSpeed ELSE 1
         IN  IF shot # NoTarget THEN shot
             ELSE AxisMove(ship[1], dx, dy, <<0, 2, 1, 3>>,
                           Min(speed, Abs(dx)), Min(speed, Abs(dy)))

get_offense_action(o, ship, enemy_pl) ==
    IF enemy_pl = None THEN TypeError
    ELSE LET shot == IF ship[5] = 0 THEN FirstShot(o.enemy_ships, ship, 1)
                     ELSE NoTarget
             dx == enemy_pl[1] - ship[2]
             dy == enemy_pl[2] - ship[3]
             speed == IF ship[6] = 0 THEN MaxSpeed ELSE 1
         IN  IF shot # NoTarget THEN shot
             ELSE AxisMove(ship[1], dx, dy, <<0, 2, 1, 3>>, speed, speed)

\* The scan of get_explore_action.  Only cells that pass the valuable test
\* matter, and a cell that is 0 does not pass it.
Valuables(map) == {c \in DOMAIN map : IsValuable(map[c])}

OnesCount(map, i, j) ==
    Cardinality({c \in Valuables(map) :
        /\ Max(0, i - 3) <= c[1] /\ c[1] < Min(BoardSize, i + 3)
        /\ Max(0, j - 3) <= c[2] /\ c[2] < Min(BoardSize, j + 3)})

RowMajorBefore(c, d) == c[1] < d[1] \/ (c[1] = d[1] /\ c[2] < d[2])

\* the cell the scan ends with: the first one, in row-major order, of those
\* with the greatest count ("if ones_count > max_ones_count")
ExploreTarget(map) ==
    CHOOSE c \in Valuables(map) :
        \A d \in Valuables(map) \ {c} :
            \/ OnesCount(map, d[1], d[2]) < OnesCount(map, c[1], c[2])
            \/ /\ OnesCount(map, d[1], d[2]) = OnesCount(map, c[1], c[2])
               /\ RowMajorBefore(c, d)

\* pick is the index random.choice draws
get_explore_action(o, ship, home_pl, pick) ==
    LET shot == IF ship[5] = 0 THEN FirstShot(o.enemy_ships, ship, 1)
                ELSE NoTarget
    IN  IF shot # NoTarget THEN shot
        ELSE IF Valuables(o.map) = {} THEN
            IF home_pl = None THEN TypeError
            ELSE IF home_pl[1] = LowCorner THEN <<ship[1], 0, <<0, 1>>[pick + 1], 1>>
            ELSE <<ship[1], 0, <<2, 3>>[pick + 1], 1>>
        ELSE LET t == ExploreTarget(o.map)
                 dx == ship[2] - t[2]
                 dy == ship[3] - t[1]
             IN  AxisMove(ship[1], dx, dy, <<2, 0, 3, 1>>,
                          Min(MaxSpeed, Abs(dx)), Min(MaxSpeed, Abs(dy)))

\* return_home_on_low_hp without the cap of the speed
return_home_uncapped(ship, home_x, home_y) ==
    LET dx == ship[2] - home_x
        dy == ship[3] - home_y
    IN  AxisMove(ship[1], dx, dy, <<2, 0, 3, 1>>, Abs(dx), Abs(dy))

return_home_on_low_hp(ship, home_x, home_y) ==
    LET dx == ship[2] - home_x
        dy == ship[3] - home_y
    IN  AxisMove(ship[1], dx, dy, <<2, 0, 3, 1>>,
                 Min(MaxSpeed, Abs(dx)), Min(MaxSpeed, Abs(dy)))

\* the direction of one attempt; draw is what random.randint(0, 3) gives
WalkDirection(ship, home_x, home_y, draw) ==
    IF home_x = LowCorner /\ ship[2] <= home_x THEN 0
    ELSE IF home_y = LowCorner /\ ship[3] <= home_y THEN 1
    ELSE IF home_x = HighCorner /\ ship[2] >= home_x THEN 2
    ELSE IF home_y = HighCorner /\ ship[3] >= home_y THEN 3
    ELSE draw

WalkCell(ship, direction) ==
    <<ship[2] + (IF direction = 0 THEN 1 ELSE IF direction = 2 THEN -1 ELSE 0),
      ship[3] + (IF direction = 1 THEN 1 ELSE IF direction = 3 THEN -1 ELSE 0)>>

\* WalkCellOk without the asteroid test
WalkCellOkAnyGround(map, cell, home_x, home_y, max_distance) ==
    /\ 0 <= cell[1] /\ cell[1] < BoardSize /\ 0 <= cell[2] /\ cell[2] < BoardSize
    /\ ~(Abs(cell[1] - home_x) + Abs(cell[2] - home_y) > max_distance)

\* the three tests of one attempt, all passed
WalkCellOk(map, cell, home_x, home_y, max_distance) ==
    /\ 0 <= cell[1] /\ cell[1] < BoardSize /\ 0 <= cell[2] /\ cell[2] < BoardSize
    /\ ~(Abs(cell[1] - home_x) + Abs(cell[2] - home_y) > max_distance)
    /\ ~is_asteroid(map, cell[1], cell[2])

\* attempts k..WalkAttempts of the loop; walk[k] is the k-th draw
RECURSIVE WalkLoop(_, _, _, _, _, _)
WalkLoop(map, ship, home_x, home_y, walk, k) ==
    LET direction == WalkDirection(ship, home_x, home_y, walk[k]) IN
    IF WalkCellOk(map, WalkCell(ship, direction), home_x, home_y, WalkMaxDistance)
        THEN <<ship[1], 0, direction, 1>>
    ELSE IF k = WalkAttempts THEN <<ship[1], 0, direction, 1>>
    ELSE WalkLoop(map, ship, home_x, home_y, walk, k + 1)

move_randomly_around_home(map, ship, home_x, home_y, walk) ==
    WalkLoop(map, ship, home_x, home_y, walk, 1)

\* get_defense_action that retreats only below the threshold ("<" for "<=")
get_defense_retreat_below(o, ship, home_pl, walk) ==
    LET shot == FirstShot(o.enemy_ships, ship, 1) IN
    IF shot # NoTarget THEN shot
    ELSE IF home_pl = None THEN TypeError
    ELSE IF ship[4] < RetreatHealth
        THEN return_home_on_low_hp(ship, home_pl[1], home_pl[2])
    ELSE move_randomly_around_home(o.map, ship, home_pl[1], home_pl[2], walk)

get_defense_action(o, ship, home_pl, walk) ==
    LET shot == FirstShot(o.enemy_ships, ship, 1) IN
    IF shot # NoTarget THEN shot
    ELSE IF home_pl = None THEN TypeError
    ELSE IF ship[4] <= RetreatHealth
        THEN return_home_on_low_hp(ship, home_pl[1], home_pl[2])
    ELSE move_randomly_around_home(o.map, ship, home_pl[1], home_pl[2], walk)

----------------------------------------------------------------------------
(* Agent.__init__ and Agent.get_action *)

KeyError == <<-2>>

\* the dispatch of get_action for one ship; draw holds the random values the
\* behaviour consumes
ActionFor(o, roles, home_pl, enemy_pl, ship, draw) ==
    IF ship[1] \notin DOMAIN roles THEN KeyError
    ELSE LET role == roles[ship[1]] IN
         IF role = ROLE_DEFEND THEN get_defense_action(o, ship, home_pl, draw.walk)
         ELSE IF role = ROLE_EXPLORE THEN get_explore_action(o, ship, home_pl, draw.pick)
         ELSE IF role = ROLE_ATTACK THEN get_offense_action(o, ship, enemy_pl)
         ELSE get_explore_action(o, ship, home_pl, draw.pick)

\* SetsAnchors without the "is None" test: the anchors follow every report
SetsAnchorsAlways(home_pl, planets_occupation) ==
    planets_occupation # <<>>

SetsAnchors(home_pl, planets_occupation) ==
    home_pl = None /\ planets_occupation # <<>>

NewHome(home_pl, planets_occupation) ==
    IF SetsAnchors(home_pl, planets_occupation) THEN planets_occupation[1]
    ELSE home_pl

NewEnemy(home_pl, enemy_pl, planets_occupation) ==
    IF SetsAnchors(home_pl, planets_occupation) THEN
        IF planets_occupation[1][1] = LowCorner
            THEN <<HighCorner, HighCorner>> ELSE <<LowCorner, LowCorner>>
    ELSE enemy_pl

\* "self.last_known_enemy_positions[enemy[0]] = (enemy[1], enemy[2], self.turn_counter)"
Remember(mem, enemies, turn) ==
    [id \in (DOMAIN mem) \cup ShipIds(enemies) |->
        IF id \in ShipIds(enemies)
        THEN LET k == CHOOSE i \in 1..Len(enemies) :
                        /\ enemies[i][1] = id
                        /\ \A j \in (i + 1)..Len(enemies) : enemies[j][1] # id
             IN  <<enemies[k][2], enemies[k][3], turn>>
        ELSE mem[id]]

NoReturn == [status |-> "none", ships_actions |-> <<>>, construction |-> 0]
Raised == [status |-> "raised", ships_actions |-> <<>>, construction |-> 0]

IdleObs == [map |-> <<>>, allied_ships |-> <<>>, enemy_ships |-> <<>>,
            planets_occupation |-> <<>>]

\* the state after construction and t calls of get_action on IdleObs
InitAt(t) ==
    /\ turn_counter = t
    /\ home_planet = None
    /\ enemy_planet = None
    /\ ship_roles = <<>>
    /\ last_known_enemy_positions = <<>>
    /\ obs = IdleObs
    /\ ret = IF t = 0 THEN NoReturn
             ELSE [status |-> "ok", ships_actions |-> <<>>,
                   construction |-> Construction]
    /\ sched = Scheduler(<<>>, t, <<>>)
    /\ calls = t
    /\ ticks = 0

NoHelper == [fn |-> "none", args |-> <<>>, out |-> <<>>, done |-> FALSE]

\* a direct call of one of the module-level functions
HelperResult(h) ==
    CASE h.fn = "shoot_enemy_if_in_range" ->
            shoot_enemy_if_in_range(h.args.enemy, h.args.ship)
      [] h.fn = "get_defense_action" ->
            get_defense_action(h.args.o, h.args.ship, h.args.anchor, h.args.draw.walk)
      [] h.fn = "get_explore_action" ->
            get_explore_action(h.args.o, h.args.ship, h.args.anchor, h.args.draw.pick)
      [] h.fn = "get_offense_action" ->
            get_offense_action(h.args.o, h.args.ship, h.args.anchor)
      [] h.fn = "move_randomly_around_home" ->
            move_randomly_around_home(h.args.o.map, h.args.ship, h.args.anchor[1],
                                      h.args.anchor[2], h.args.draw.walk)

CallHelper ==
    /\ helper.fn # "none"
    /\ ~helper.done
    /\ helper' = [helper EXCEPT !.out = HelperResult(helper), !.done = TRUE]
    /\ UNCHANGED agent_vars

\* NextTurn that leaves the counter alone on the first call
NextTurnLate(t) == IF t = 0 THEN 0 ELSE t + 1

\* "self.turn_counter += 1"
NextTurn(t) == t + 1

\* ActionList that stops one ship short
ActionListShort(o, roles, home_pl, enemy_pl, rnd) ==
    [i \in 1..(Len(o.allied_ships) - 1) |->
        ActionFor(o, roles, home_pl, enemy_pl, o.allied_ships[i], rnd[i])]

\* the loop that builds action_list
ActionList(o, roles, home_pl, enemy_pl, rnd) ==
    [i \in 1..Len(o.allied_ships) |->
        ActionFor(o, roles, home_pl, enemy_pl, o.allied_ships[i], rnd[i])]

\* one call get_action(o); rnd[i] holds the random values drawn for the
\* i-th ship.  A TypeError or KeyError of a behaviour leaves get_action
\* through the caller: what was assigned before it stays assigned.
GetAction(o, rnd) ==
    /\ turn_counter' = NextTurn(turn_counter)
    /\ home_planet' = NewHome(home_planet, o.planets_occupation)
    /\ enemy_planet' = NewEnemy(home_planet, enemy_planet, o.planets_occupation)
    /\ last_known_enemy_positions' =
           Remember(last_known_enemy_positions, o.enemy_ships, turn_counter')
    /\ sched' = Scheduler(ship_roles, turn_counter', o.allied_ships)
    /\ ship_roles' = sched'.final
    /\ obs' = o
    /\ LET acts == ActionList(o, ship_roles', home_planet', enemy_planet', rnd)
       IN  ret' = IF \E i \in 1..Len(acts) : acts[i] \in {TypeError, KeyError}
                  THEN Raised
                  ELSE [status |-> "ok", ships_actions |-> acts,
                        construction |-> Construction]
    /\ calls' = calls + 1
    /\ ticks' = ticks + 1
    /\ UNCHANGED helper

----------------------------------------------------------------------------
(* Bounds and inputs *)

MaxTicks == 2
LongMaxUnits == 4
LastTurn == 502
MaxOffset == 9

UnitIds == {0, 1, 2}
HealthValues == {AttackMinHealth - 1, AttackMinHealth}
StartTurns == {0, Phase2Start - 2, Phase3Start - 2}

HomeLow == <<LowCorner, LowCorner, 0>>
HomeHigh == <<HighCorner, HighCorner, 100>>
Neutral == <<50, 50, -1>>

Draw(pick, a, b, k) ==
    [pick |-> pick, walk |-> [i \in 1..WalkAttempts |-> IF i <= k THEN a ELSE b]]

SameDraws(n, d) == [i \in 1..n |-> d]

\* all lists of ships of ShipSet with pairwise different ids
Fleets(ShipSet, maxlen) ==
    {f \in UNION {[1..n -> ShipSet] : n \in 0..maxlen} :
        \A i, j \in 1..Len(f) : i # j => f[i][1] # f[j][1]}

\* the scheduler's inputs: which units are listed, their order and their
\* health vary
SchedShips == {<<id, 12, 12, hp, 0, 0>> : id \in UnitIds, hp \in HealthValues}
SchedFleets == Fleets(SchedShips, Cardinality(UnitIds))
SchedObs == {[map |-> <<>>, allied_ships |-> f, enemy_ships |-> <<>>,
              planets_occupation |-> <<HomeLow>>] : f \in SchedFleets}

\* Spec: runs of MaxTicks calls that start at turn 0 and two calls before
\* each phase change, on the scheduler's inputs
Tick ==
    /\ ticks < MaxTicks
    /\ \E o \in SchedObs :
           GetAction(o, SameDraws(Len(o.allied_ships), Draw(0, 0, 0, 0)))

Init == helper = NoHelper /\ \E t \in StartTurns : InitAt(t)

Next == Tick

Spec == Init /\ [][Next]_vars

\* SpecResidues: as Spec, the units being such that two of them are seeded
\* with the same role
ResidueIds == {1, 4, 5}
ResidueShips == {<<id, 12, 12, hp, 0, 0>> : id \in ResidueIds, hp \in HealthValues}
ResidueObs == {[map |-> <<>>, allied_ships |-> f, enemy_ships |-> <<>>,
                planets_occupation |-> <<HomeLow>>] :
                  f \in Fleets(ResidueShips, Cardinality(ResidueIds))}

ResidueTick ==
    /\ ticks < MaxTicks
    /\ \E o \in ResidueObs :
           GetAction(o, SameDraws(Len(o.allied_ships), Draw(0, 0, 0, 0)))

SpecResidues == Init /\ [][ResidueTick]_vars

\* SpecDonors: as Spec, the units being such that two of them are seeded
\* Explore, a role whose phase-3 target is not 0
DonorIds == {0, 3, 4}
DonorShips == {<<id, 12, 12, hp, 0, 0>> : id \in DonorIds, hp \in HealthValues}
DonorObs == {[map |-> <<>>, allied_ships |-> f, enemy_ships |-> <<>>,
              planets_occupation |-> <<HomeLow>>] :
                f \in Fleets(DonorShips, Cardinality(DonorIds))}

DonorTick ==
    /\ ticks < MaxTicks
    /\ \E o \in DonorObs :
           GetAction(o, SameDraws(Len(o.allied_ships), Draw(0, 0, 0, 0)))

SpecDonors == Init /\ [][DonorTick]_vars

\* SpecLong: the calls 1..LastTurn from construction on, the units being the
\* first n ids
LongFleets == {[i \in 1..n |-> <<i - 1, 12, 12, AttackMinHealth, 0, 0>>] :
                  n \in 0..LongMaxUnits}
LongObs == {[map |-> <<>>, allied_ships |-> f, enemy_ships |-> <<>>,
             planets_occupation |-> p] : f \in LongFleets, p \in {<<>>, <<HomeLow>>}}

LongTick ==
    /\ turn_counter < LastTurn
    /\ \E o \in LongObs :
           GetAction(o, SameDraws(Len(o.allied_ships), Draw(0, 0, 0, 0)))

InitLong == helper = NoHelper /\ InitAt(0)

SpecLong == InitLong /\ [][LongTick]_vars

\* SpecAnchors: MaxTicks calls from construction on, the occupation report
\* varying
AnchorFleets == {<<>>, <<<<0, 12, 12, AttackMinHealth, 0, 0>>>>}
AnchorReports == {<<>>, <<HomeLow>>, <<HomeHigh>>, <<Neutral, HomeLow>>,
                  <<HomeHigh, HomeLow>>, <<<<LowCorner, 50, -1>>>>}
AnchorObs == {[map |-> <<>>, allied_ships |-> f, enemy_ships |-> <<>>,
               planets_occupation |-> p] : f \in AnchorFleets, p \in AnchorReports}

AnchorTick ==
    /\ ticks < MaxTicks
    /\ \E o \in AnchorObs :
           GetAction(o, SameDraws(Len(o.allied_ships), Draw(0, 0, 0, 0)))

SpecAnchors == InitLong /\ [][AnchorTick]_vars

\* SpecShoot: direct calls of shoot_enemy_if_in_range, the enemy at every
\* offset of at most MaxOffset on each axis from the ship
ShootCalls ==
    {[fn |-> "shoot_enemy_if_in_range",
      args |-> [enemy |-> <<100, c[1] + dx, c[2] + dy, 50, 0, 0>>,
                ship |-> <<id, c[1], c[2], 50, 0, 0>>],
      out |-> <<>>, done |-> FALSE] :
        id \in {0, 7}, c \in {<<12, 12>>, <<50, 50>>},
        dx \in (-MaxOffset)..MaxOffset, dy \in (-MaxOffset)..MaxOffset}

InitShoot == InitAt(0) /\ helper \in ShootCalls

SpecShoot == InitShoot /\ [][CallHelper]_vars

\* SpecAct: either MaxTicks calls of get_action on one-ship observations where
\* enemies, cooldowns and the occupation report vary, or one direct call of a
\* role behaviour
ValuableMap == (<<3, 4>> :> 1) @@ (<<4, 4>> :> 1) @@ (<<60, 70>> :> 1) @@ (<<20, 20>> :> 65)
AsteroidMap == (<<13, 12>> :> 2) @@ (<<12, 13>> :> 3) @@ (<<11, 12>> :> 6) @@ (<<12, 11>> :> 1)
EnemyAt(c) == <<100, c[1], c[2], 50, 0, 0>>

ActShips == {<<id, c[1], c[2], hp, fcd, 0>> :
                id \in UnitIds, c \in {<<12, 12>>, <<50, 50>>},
                hp \in {RetreatHealth, RetreatHealth + 1}, fcd \in {0, 1}}
ActObs == {[map |-> <<>>, allied_ships |-> f, enemy_ships |-> e,
            planets_occupation |-> p] :
              f \in {<<>>} \cup {<<sh>> : sh \in ActShips},
              e \in {<<>>, <<EnemyAt(<<12, 15>>)>>},
              p \in {<<>>, <<HomeLow>>}}

ActTick ==
    /\ helper = NoHelper
    /\ ticks < MaxTicks
    /\ \E o \in ActObs :
           GetAction(o, SameDraws(Len(o.allied_ships), Draw(1, 3, 3, 0)))

ProbeCells == {<<0, 0>>, <<9, 9>>, <<9, 12>>, <<12, 9>>, <<12, 12>>, <<10, 12>>,
               <<11, 9>>, <<50, 50>>, <<90, 90>>, <<90, 80>>, <<99, 99>>}
ProbeShips == {<<5, c[1], c[2], hp, fcd, mcd>> :
                  c \in ProbeCells, hp \in {RetreatHealth, RetreatHealth + 1},
                  fcd \in {0, 1}, mcd \in {0, 1}}
ProbeObs == {[map |-> m, allied_ships |-> <<>>, enemy_ships |-> e,
              planets_occupation |-> <<>>] :
                m \in {<<>>, ValuableMap, AsteroidMap},
                e \in {<<>>, <<EnemyAt(<<12, 15>>)>>, <<EnemyAt(<<90, 90>>)>>,
                       <<EnemyAt(<<21, 12>>), EnemyAt(<<4, 12>>), EnemyAt(<<12, 15>>)>>}}
ProbeDraws == {Draw(pick, a, b, k) :
                  pick \in {0, 1}, a \in {0, 2}, b \in {1, 3}, k \in {0, 9}}

BehaviourCalls ==
    {[fn |-> fn, args |-> [o |-> o, ship |-> sh, anchor |-> a, draw |-> d],
      out |-> <<>>, done |-> FALSE] :
        fn \in {"get_defense_action", "get_explore_action"},
        o \in ProbeObs, sh \in ProbeShips,
        a \in {None, HomeLow, HomeHigh, Neutral}, d \in ProbeDraws}
    \cup
    {[fn |-> "get_offense_action",
      args |-> [o |-> o, ship |-> sh, anchor |-> a, draw |-> Draw(0, 0, 0, 0)],
      out |-> <<>>, done |-> FALSE] :
        o \in ProbeObs, sh \in ProbeShips,
        a \in {None, <<HighCorner, HighCorner>>, <<LowCorner, LowCorner>>}}

InitAct ==
    \/ helper = NoHelper /\ \E t \in StartTurns : InitAt(t)
    \/ InitAt(0) /\ helper \in BehaviourCalls

NextAct == ActTick \/ CallHelper

SpecAct == InitAct /\ [][NextAct]_vars

\* SpecWalk: direct calls of move_randomly_around_home; the draws are a first
\* value for the first k attempts and a second value for the rest
WalkCalls ==
    {[fn |-> "move_randomly_around_home",
      args |-> [o |-> [map |-> m, allied_ships |-> <<>>, enemy_ships |-> <<>>,
                       planets_occupation |-> <<>>],
                ship |-> <<5, c[1], c[2], RetreatHealth + 1, 0, 0>>,
                anchor |-> h, draw |-> Draw(0, a, b, k)],
      out |-> <<>>, done |-> FALSE] :
        m \in {<<>>, AsteroidMap}, c \in ProbeCells,
        h \in {HomeLow, HomeHigh, Neutral},
        a \in 0..3, b \in 0..3, k \in 0..(WalkAttempts - 1)}

InitWalk == InitAt(0) /\ helper \in WalkCalls

SpecWalk == InitWalk /\ [][CallHelper]_vars

----------------------------------------------------------------------------
(* Properties *)

Called == ret.status # "none"
Allied == obs.allied_ships
AlliedIds == ShipIds(obs.allied_ships)

\* number of listed units that role map roles gives role r
CountRole(roles, r) ==
    Cardinality({i \in 1..Len(Allied) : roles[Allied[i][1]] = r})

\* the role the spec's seeding rule gives an id
SeedRule(id) ==
    CASE id % 3 = 0 -> "explore"
      [] id % 3 = 1 -> "attack"
      [] id % 3 = 2 -> "defend"

\* C1: the seed step gives every listed id without an entry the role of its
\* residue mod 3 (0 Explore, 1 Attack, 2 Defend), leaves every existing entry
\* as it was, and seeding the seeded map again changes nothing.
C1_SeedByResidue ==
    Called =>
        /\ DOMAIN sched.seeded = (DOMAIN sched.pre) \cup AlliedIds
        /\ \A id \in AlliedIds \ DOMAIN sched.pre : sched.seeded[id] = SeedRule(id)
        /\ \A id \in DOMAIN sched.pre : sched.seeded[id] = sched.pre[id]
        /\ Seed(sched.seeded, Allied).roles = sched.seeded

\* a call that seeds a new id beside a listed id whose role is no longer the
\* seeded one
C1_Witness ==
    /\ Called
    /\ \E a, b \in AlliedIds :
        /\ a \notin DOMAIN sched.pre
        /\ b \in DOMAIN sched.pre
        /\ sched.pre[b] # SeedRule(b)
        /\ sched.seeded[b] = sched.pre[b]
        /\ sched.seeded[a] = SeedRule(a)

\* C2: after every call the key set of the role map is exactly the set of
\* ids in the call's allied unit list.
C2_KeysAreCurrentUnits ==
    Called => DOMAIN ship_roles = AlliedIds

\* a call that evicts an id of the previous tick and adds a new one
C2_Witness ==
    /\ Called
    /\ (DOMAIN sched.pre) \ AlliedIds # {}
    /\ AlliedIds \ DOMAIN sched.pre # {}
    /\ DOMAIN ship_roles = AlliedIds

\* whether, after the rebalance step, a unit could still be given to role r:
\* a unit of another role whose count is above that role's target, not
\* counting units of health < 30 when r is Attack
EligibleDonor(r) ==
    \E i \in 1..Len(Allied) :
        LET q == sched.rebalanced[Allied[i][1]] IN
        /\ q # r
        /\ CountRole(sched.rebalanced, q) > sched.target[q]
        /\ ~(r = "attack" /\ Allied[i][4] < 30)

\* C3: after the rebalance step every role is within 1 of its target or no
\* eligible donor remains, and a deficient role is filled until its target
\* is met or no eligible donor remains.
C3_RebalanceReachesTarget ==
    Called =>
        \A r \in RoleSet :
            LET n == CountRole(sched.rebalanced, r) IN
            /\ Abs(n - sched.target[r]) <= 1 \/ ~EligibleDonor(r)
            /\ n >= sched.target[r] \/ ~EligibleDonor(r)

\* C4: the first call, with exactly the units 0, 1 and 2 in any order and of
\* any health, ends with all three in Explore.
C4_FirstTickAllExplore ==
    (turn_counter = 1 /\ Len(Allied) = 3 /\ AlliedIds = {0, 1, 2}
        /\ sched.pre = <<>>)
    => ship_roles = [id \in {0, 1, 2} |-> "explore"]

\* the first call with the units listed as 2, 0, 1, units 2 and 1 below
\* health 30
C4_Witness ==
    /\ turn_counter = 1
    /\ sched.pre = <<>>
    /\ Len(Allied) = 3
    /\ <<Allied[1][1], Allied[2][1], Allied[3][1]>> = <<2, 0, 1>>
    /\ <<Allied[1][4], Allied[2][4], Allied[3][4]>> = <<29, 30, 29>>
    /\ sched.seeded = [id \in {0, 1, 2} |-> SeedRule(id)]
    /\ ship_roles = [id \in {0, 1, 2} |-> "explore"]

\* the target distribution of the k-th call for n listed units
PhaseTarget(k, n) ==
    LET all == IF n >= 1 THEN n ELSE 1
        half == IF n >= 2 THEN n \div 2 ELSE 1
    IN  IF k < 250 THEN [r \in RoleSet |-> IF r = "explore" THEN all ELSE 0]
        ELSE IF k < 500 THEN [r \in RoleSet |-> IF r = "attack" THEN all ELSE 0]
        ELSE [r \in RoleSet |-> IF r = "attack" THEN 0 ELSE half]

C6_OneActionPerUnit ==
    ret.status = "ok" =>
        /\ Len(ret.ships_actions) = Len(Allied)
        /\ \A i \in 1..Len(Allied) : ret.ships_actions[i][1] = Allied[i][1]

\* a batch for two or more units returned by a call that found a role for an
\* id that is no longer listed
C6_Witness ==
    /\ ret.status = "ok"
    /\ Len(Allied) >= 2
    /\ (DOMAIN sched.pre) \ AlliedIds # {}
    /\ Len(ret.ships_actions) = Len(Allied)

FireAction(a) == Len(a) = 3 /\ a[2] = 1 /\ a[3] \in 0..3
MoveAction(a) == Len(a) = 4 /\ a[2] = 0 /\ a[3] \in 0..3 /\ a[4] \in 0..3
BehaviourNames == {"get_defense_action", "get_explore_action", "get_offense_action"}

\* C7: every action a role behaviour returns, called directly or through
\* get_action, is a fire action [id, 1, d] or a move action [id, 0, d, s]
\* with d and s in 0..3, and get_action's construction value is in 0..10.
C7_ActionsWellFormed ==
    /\ ret.status = "ok" =>
        /\ \A i \in 1..Len(ret.ships_actions) :
               FireAction(ret.ships_actions[i]) \/ MoveAction(ret.ships_actions[i])
        /\ ret.construction \in 0..10
    /\ (helper.fn \in BehaviourNames /\ helper.done /\ helper.out # TypeError) =>
        /\ FireAction(helper.out) \/ MoveAction(helper.out)
        /\ helper.out[1] = helper.args.ship[1]

\* get_action at turn 500 for the one unit 2, in Defend, of health 30 and 41
\* cells from home on both axes: it retreats upward at speed 3
C7_Witness ==
    /\ ret.status = "ok"
    /\ turn_counter = 500
    /\ Len(Allied) = 1
    /\ ship_roles[Allied[1][1]] = "defend"
    /\ <<Allied[1][2], Allied[1][3], Allied[1][4]>> = <<50, 50, 30>>
    /\ ret.ships_actions = <<<<2, 0, 3, 3>>>>
    /\ ret.construction = 10

\* C8: the anchors are unset at first; a call sets them if and only if they
\* are unset and its occupation report is not empty, home to the first entry
\* and the enemy anchor to (90,90) if home x = 9 and to (9,9) otherwise; once
\* set, no call changes them.
C8_AnchorsSetOnce ==
    /\ home_planet = <<>> /\ enemy_planet = <<>>
    /\ [][/\ home_planet # <<>> =>
               home_planet' = home_planet /\ enemy_planet' = enemy_planet
          /\ (home_planet = <<>> /\ obs'.planets_occupation = <<>>) =>
               home_planet' = <<>> /\ enemy_planet' = <<>>
          /\ (home_planet = <<>> /\ obs'.planets_occupation # <<>>) =>
               /\ home_planet' = obs'.planets_occupation[1]
               /\ enemy_planet' = IF home_planet'[1] = 9 THEN <<90, 90>>
                                  ELSE <<9, 9>>]_vars

\* a second call whose report starts with another planet than home
C8_Witness ==
    /\ calls >= 2
    /\ home_planet # <<>>
    /\ obs.planets_occupation # <<>>
    /\ obs.planets_occupation[1] # home_planet
    /\ enemy_planet = IF home_planet[1] = 9 THEN <<90, 90>> ELSE <<9, 9>>

\* C9: the turn counter starts at 0, every call of get_action adds exactly 1
\* to it, and after k calls it is k.
C9_TurnCounter ==
    /\ turn_counter = 0
    /\ [][turn_counter' = turn_counter + 1]_vars
    /\ [](turn_counter = calls)

\* the 300th call has been made
C9_Witness == calls = 300 /\ turn_counter = 300

\* the offsets of the enemy from the ship in a direct call
ShootDx == helper.args.enemy[2] - helper.args.ship[2]
ShootDy == helper.args.enemy[3] - helper.args.ship[3]

\* C10: shoot_enemy_if_in_range fires right (0) on the same y with the enemy
\* 1..8 to the right, left (2) with it 1..8 to the left, down (1) on the same
\* x with it 1..8 below, up (3) with it 1..8 above, and gives the empty
\* result in every other case.
C10_ShootInRange ==
    (helper.fn = "shoot_enemy_if_in_range" /\ helper.done) =>
        helper.out =
            CASE ShootDy = 0 /\ ShootDx \in 1..8 -> <<helper.args.ship[1], 1, 0>>
              [] ShootDy = 0 /\ -ShootDx \in 1..8 -> <<helper.args.ship[1], 1, 2>>
              [] ShootDx = 0 /\ ShootDy \in 1..8 -> <<helper.args.ship[1], 1, 1>>
              [] ShootDx = 0 /\ -ShootDy \in 1..8 -> <<helper.args.ship[1], 1, 3>>
              [] OTHER -> <<>>

\* a call with the enemy 8 cells to the right on the same row, the edge of
\* the radius
C10_Witness ==
    /\ helper.fn = "shoot_enemy_if_in_range" /\ helper.done
    /\ ShootDx = 8 /\ ShootDy = 0
    /\ helper.out = <<helper.args.ship[1], 1, 0>>

\* whether the enemy is in alignment-range of the ship: on the ship's row or
\* column, at a distance of 1..8
InRange(enemy, ship) ==
    \/ enemy[3] = ship[3] /\ Abs(enemy[2] - ship[2]) \in 1..8
    \/ enemy[2] = ship[2] /\ Abs(enemy[3] - ship[3]) \in 1..8

SomeInRange(enemies, ship) == \E k \in 1..Len(enemies) : InRange(enemies[k], ship)

\* C11: a Defend unit's action, from a direct call of get_defense_action or
\* from get_action, is a fire action only if some enemy is in alignment-range
\* and the unit's firing cooldown is 0.
C11_DefendFiresOnlyWhenReady ==
    /\ (helper.fn = "get_defense_action" /\ helper.done /\ FireAction(helper.out)) =>
        /\ SomeInRange(helper.args.o.enemy_ships, helper.args.ship)
        /\ helper.args.ship[5] = 0
    /\ ret.status = "ok" =>
        \A i \in 1..Len(Allied) :
            (ship_roles[Allied[i][1]] = "defend" /\ FireAction(ret.ships_actions[i])) =>
                /\ SomeInRange(obs.enemy_ships, Allied[i])
                /\ Allied[i][5] = 0

\* the retreat the spec describes for a ship and a home anchor: the x axis
\* when |dx| > |dy| (left if the ship is right of home, else right), the y
\* axis otherwise (up if the ship is below home, else down), at speed
\* min(3, |offset on that axis|)
RetreatMove(ship, home) ==
    LET dx == ship[2] - home[1]
        dy == ship[3] - home[2]
    IN  IF Abs(dx) > Abs(dy)
            THEN <<ship[1], 0, IF dx > 0 THEN 2 ELSE 0, Min(3, Abs(dx))>>
        ELSE <<ship[1], 0, IF dy > 0 THEN 3 ELSE 1, Min(3, Abs(dy))>>

\* what the spec gives a Defend unit of health <= 30 whose home is known
DefendLowHealth(enemies, ship, home, action) ==
    IF SomeInRange(enemies, ship) THEN FireAction(action)
    ELSE action = RetreatMove(ship, home)

\* C12: a Defend unit of health <= 30 with no enemy in alignment-range moves
\* toward the home anchor, on the x axis when |dx| > |dy| and on the y axis
\* otherwise (the tie included), at speed min(3, |offset|); with an enemy in
\* range it fires instead, and it never takes the random walk.
C12_DefendRetreat ==
    /\ (helper.fn = "get_defense_action" /\ helper.done
            /\ helper.args.ship[4] <= 30 /\ helper.args.anchor # <<>>) =>
        DefendLowHealth(helper.args.o.enemy_ships, helper.args.ship,
                        helper.args.anchor, helper.out)
    /\ (ret.status = "ok" /\ home_planet # <<>>) =>
        \A i \in 1..Len(Allied) :
            (ship_roles[Allied[i][1]] = "defend" /\ Allied[i][4] <= 30) =>
                DefendLowHealth(obs.enemy_ships, Allied[i], home_planet,
                                ret.ships_actions[i])

\* a direct call for a unit of health 30 two cells right of home on home's
\* row, the only enemy out of range: it moves left at speed 2
C12_Witness ==
    /\ helper.fn = "get_defense_action" /\ helper.done
    /\ helper.args.ship[4] = 30
    /\ <<helper.args.ship[2], helper.args.ship[3]>> = <<11, 9>>
    /\ helper.args.anchor = <<9, 9, 0>>
    /\ Len(helper.args.o.enemy_ships) = 1
    /\ ~SomeInRange(helper.args.o.enemy_ships, helper.args.ship)
    /\ helper.out = <<helper.args.ship[1], 0, 2, 2>>

\* the health of the listed unit id
HealthOf(id) == Allied[CHOOSE i \in 1..Len(Allied) : Allied[i][1] = id][4]

\* C13: every unit the rebalance step reassigns to Attack has health >= 30
\* on that tick, and a unit of health < 30 that is not Attack before the
\* rebalance step is not Attack after it.
C13_NoDamagedToAttack ==
    Called =>
        /\ \A k \in 1..Len(sched.moved) :
               sched.moved[k][3] = "attack" => HealthOf(sched.moved[k][1]) >= 30
        /\ \A id \in AlliedIds :
               (HealthOf(id) < 30 /\ sched.seeded[id] # "attack")
                   => sched.rebalanced[id] # "attack"

\* a call in which the rebalance step passes over a unit of health < 30 and
\* reassigns to Attack a unit of the same role listed after it
C13_Witness ==
    /\ Called
    /\ \E i, j \in 1..Len(Allied) :
        /\ i < j
        /\ Allied[i][4] < 30
        /\ sched.seeded[Allied[i][1]] = sched.seeded[Allied[j][1]]
        /\ sched.seeded[Allied[i][1]] # "attack"
        /\ sched.rebalanced[Allied[i][1]] = sched.seeded[Allied[i][1]]
        /\ \E k \in 1..Len(sched.moved) :
               sched.moved[k] = <<Allied[j][1], sched.seeded[Allied[j][1]], "attack">>

\* the first enemy of the list that is in alignment-range of the ship
FirstInRange(enemies, ship) ==
    enemies[CHOOSE k \in 1..Len(enemies) :
                /\ InRange(enemies[k], ship)
                /\ \A j \in 1..(k - 1) : ~InRange(enemies[j], ship)]

\* the direction from the ship to an enemy on its row or column
DirectionTo(enemy, ship) ==
    IF enemy[3] = ship[3] THEN (IF enemy[2] > ship[2] THEN 0 ELSE 2)
    ELSE (IF enemy[3] > ship[3] THEN 1 ELSE 3)

\* what the spec gives an Attack unit whose enemy anchor is known
AttackAction(enemies, ship, anchor, action) ==
    LET dx == anchor[1] - ship[2]
        dy == anchor[2] - ship[3]
    IN  IF ship[5] = 0 /\ SomeInRange(enemies, ship)
            THEN action = <<ship[1], 1, DirectionTo(FirstInRange(enemies, ship), ship)>>
        ELSE /\ MoveAction(action)
             /\ action[1] = ship[1]
             /\ action[4] = IF ship[6] = 0 THEN 3 ELSE 1
             /\ IF Abs(dx) > Abs(dy) THEN action[3] = (IF dx > 0 THEN 0 ELSE 2)
                ELSE IF dy > 0 THEN action[3] = 1
                ELSE IF dy < 0 THEN action[3] = 3
                ELSE action[3] \in {1, 3}

\* C14: an Attack unit with firing cooldown 0 and an enemy in alignment-range
\* fires toward the first such enemy of the list; otherwise it moves toward
\* the enemy anchor, on the x axis when |dx| > |dy| and on the y axis
\* otherwise, at speed 3 when its move cooldown is 0 and at speed 1 when not.
C14_AttackAction ==
    /\ (helper.fn = "get_offense_action" /\ helper.done /\ helper.args.anchor # <<>>) =>
        AttackAction(helper.args.o.enemy_ships, helper.args.ship,
                     helper.args.anchor, helper.out)
    /\ (ret.status = "ok" /\ enemy_planet # <<>>) =>
        \A i \in 1..Len(Allied) :
            ship_roles[Allied[i][1]] = "attack" =>
                AttackAction(obs.enemy_ships, Allied[i], enemy_planet,
                             ret.ships_actions[i])

\* a direct call for a unit with firing cooldown 0 and three enemies, the
\* first out of range, the second in range to the left, the third in range
\* below: it fires left
C14_Witness ==
    /\ helper.fn = "get_offense_action" /\ helper.done
    /\ helper.args.ship[5] = 0
    /\ Len(helper.args.o.enemy_ships) = 3
    /\ ~InRange(helper.args.o.enemy_ships[1], helper.args.ship)
    /\ InRange(helper.args.o.enemy_ships[2], helper.args.ship)
    /\ InRange(helper.args.o.enemy_ships[3], helper.args.ship)
    /\ DirectionTo(helper.args.o.enemy_ships[3], helper.args.ship) = 1
    /\ helper.out = <<helper.args.ship[1], 1, 2>>

\* the cell one step from the ship in a direction
StepCell(ship, d) ==
    CASE d = 0 -> <<ship[2] + 1, ship[3]>>
      [] d = 1 -> <<ship[2], ship[3] + 1>>
      [] d = 2 -> <<ship[2] - 1, ship[3]>>
      [] d = 3 -> <<ship[2], ship[3] - 1>>

\* a cell inside the 100x100 map, within Manhattan distance 15 of home and
\* not an asteroid (bit 1 of its map value clear)
CellValid(map, cell, home) ==
    /\ cell[1] \in 0..99 /\ cell[2] \in 0..99
    /\ Abs(cell[1] - home[1]) + Abs(cell[2] - home[2]) <= 15
    /\ (MapCell(map, cell[1], cell[2]) \div 2) % 2 = 0

\* the direction sampled at the k-th attempt of a direct call
SampledDirection(k) ==
    WalkDirection(helper.args.ship, helper.args.anchor[1], helper.args.anchor[2],
                  helper.args.draw.walk[k])

SampledValid(k) ==
    CellValid(helper.args.o.map, StepCell(helper.args.ship, SampledDirection(k)),
              helper.args.anchor)

\* C15: move_randomly_around_home returns a move of speed 1 with a direction
\* in 0..3; if some of the 10 sampled candidate cells is inside the map,
\* within Manhattan distance 15 of home and not an asteroid, the move goes to
\* the first such candidate; if none is, it goes to one of the sampled
\* candidates all the same.
C15_WalkMove ==
    (helper.fn = "move_randomly_around_home" /\ helper.done) =>
        /\ MoveAction(helper.out)
        /\ helper.out[1] = helper.args.ship[1]
        /\ helper.out[4] = 1
        /\ \A k \in 1..10 :
               (SampledValid(k) /\ \A j \in 1..(k - 1) : ~SampledValid(j)) =>
                   /\ helper.out[3] = SampledDirection(k)
                   /\ CellValid(helper.args.o.map,
                                StepCell(helper.args.ship, helper.out[3]),
                                helper.args.anchor)
        /\ (\A k \in 1..10 : ~SampledValid(k)) =>
               \E k \in 1..10 : helper.out[3] = SampledDirection(k)

\* a call whose first nine candidates are an asteroid cell and whose tenth
\* is valid: the move goes to the tenth
C15_Witness ==
    /\ helper.fn = "move_randomly_around_home" /\ helper.done
    /\ \A k \in 1..9 :
           /\ ~SampledValid(k)
           /\ is_asteroid(helper.args.o.map,
                          StepCell(helper.args.ship, SampledDirection(k))[1],
                          StepCell(helper.args.ship, SampledDirection(k))[2])
    /\ SampledValid(10)
    /\ SampledDirection(10) # SampledDirection(1)
    /\ helper.out = <<helper.args.ship[1], 0, SampledDirection(10), 1>>

\* C16: after every call each listed unit has an entry in the role map whose
\* value is Explore, Attack or Defend, so the dispatch of get_action finds a
\* role for every listed unit and never takes the unknown-role branch.
C16_EveryUnitHasRole ==
    Called =>
        /\ \A id \in AlliedIds :
               /\ id \in DOMAIN ship_roles
               /\ ship_roles[id] \in {"explore", "attack", "defend"}
        /\ \A i \in 1..Len(Allied) :
               ActionFor(obs, ship_roles, home_planet, enemy_planet, Allied[i],
                         Draw(0, 0, 0, 0)) # KeyError

\* a second call that lists three units, one of them for the first time and
\* one whose role is not the seeded one
C16_Witness ==
    /\ ticks = 2
    /\ ret.status = "ok"
    /\ Len(Allied) = 3
    /\ AlliedIds \ DOMAIN sched.pre # {}
    /\ \E id \in AlliedIds \cap DOMAIN sched.pre : ship_roles[id] # SeedRule(id)
    /\ \A id \in AlliedIds : ship_roles[id] \in {"explore", "attack", "defend"}

\* C17: every call of get_action with at least one allied unit returns a
\* batch with an action for every listed unit, the calls made while the home
\* and enemy anchors are still unset included.
C17_AlwaysReturnsBatch ==
    (Called /\ Len(Allied) >= 1) =>
        /\ ret.status = "ok"
        /\ Len(ret.ships_actions) = Len(Allied)

\* C18: in phase 3, with the set of listed units staying the same, the units
\* in Attack run out after finitely many calls.  The scheduler's result
\* depends on the role map, the phase and the unit list only, so a phase-3
\* call that lists the units of the call before it and leaves the role map
\* as it found it is repeated by every later call with that unit set: such a
\* call must find no unit in Attack.
C18_AttackDrains ==
    (Called /\ turn_counter > 500 /\ DOMAIN sched.pre = AlliedIds
        /\ ship_roles = sched.pre)
    => \A id \in AlliedIds : ship_roles[id] # "attack"

\* the number of listed units that role map roles does not give Explore
NonExplore(roles) ==
    Cardinality({id \in AlliedIds : roles[id] # "explore"})

\* C19: a phase-1 call that lists the units of the call before it leaves
\* fewer units outside Explore than it found if it found any, and leaves all
\* units in Explore if it found them so.
C19_PhaseOneDrainsToExplore ==
    (Called /\ turn_counter < 250 /\ AlliedIds # {} /\ DOMAIN sched.pre = AlliedIds) =>
        /\ NonExplore(sched.pre) > 0 => NonExplore(ship_roles) < NonExplore(sched.pre)
        /\ NonExplore(sched.pre) = 0 => NonExplore(ship_roles) = 0

\* the second call lists units 1 and 4 as the first did, unit 4 having been
\* left in Attack by the first and being of health 29: it ends with both in
\* Explore
C19_Witness ==
    /\ turn_counter = 2
    /\ AlliedIds = {1, 4}
    /\ sched.pre = (1 :> "explore" @@ 4 :> "attack")
    /\ HealthOf(4) = 29
    /\ ship_roles = (1 :> "explore" @@ 4 :> "explore")

\* the reassignments of the call that were made into role r
MovedInto(r) == {k \in 1..Len(sched.moved) : sched.moved[k][3] = r}

C21_DonorsKeepTarget ==
    Called =>
        /\ \A r \in RoleSet :
               /\ CountRole(ship_roles, r)
                      >= Min(CountRole(sched.seeded, r), sched.target[r])
               /\ sched.role_counts[r] = CountRole(ship_roles, r)
        /\ sched.role_counts["explore"] + sched.role_counts["attack"]
               + sched.role_counts["defend"] = Len(Allied)

\* call 500 lists units 0, 3 and 4 for the first time, seeded Explore,
\* Explore and Attack, the targets being Explore 1 and Defend 1: Defend takes
\* one unit from Explore, which is left at its target
C21_Witness ==
    /\ turn_counter = 500
    /\ sched.pre = <<>>
    /\ AlliedIds = {0, 3, 4}
    /\ CountRole(sched.seeded, "explore") = 2
    /\ sched.target = [r \in RoleSet |-> IF r = "attack" THEN 0 ELSE 1]
    /\ Len(sched.moved) = 1
    /\ sched.moved[1][2] = "explore" /\ sched.moved[1][3] = "defend"
    /\ sched.role_counts = [r \in RoleSet |-> 1]

====
